---- MODULE Spec2Model ----
(***************************************************************************)
(* The view of the micro editor (cmd/micro/view.go): the viewport, the     *)
(* event dispatch of HandleEvent and the multi-click gesture, over a       *)
(* buffer, a cursor and an undo/redo event handler.                        *)
(*                                                                         *)
(* view.go is translated statement by statement.  Buffer, Cursor and       *)
(* EventHandler are used by view.go but defined in other files of the      *)
(* package; they are modelled here from the design document (sections 3    *)
(* and 4.1-4.3), and each such definition says so.                         *)
(*                                                                         *)
(* The methods of View are operators from a view record to a view record,  *)
(* so that a handler is the composition of the calls it makes, in the      *)
(* order the code makes them.                                              *)
(***************************************************************************)
EXTENDS Integers, Sequences, FiniteSets, TLC

(***************************************************************************)
(* Bounds of the model.                                                    *)
(***************************************************************************)
\* the longest document, in characters
MaxLen == 4
\* the most transactions kept in the undo and redo stacks together
MaxHist == 2
\* the terminal sizes a resize event reports: columns MinScreenW..MaxScreenW
MaxScreenW == 5
\* and rows MinScreenH..MaxScreenH
MaxScreenH == 4
\* the screen cells a mouse event reports: columns 0..MaxMouseX
MaxMouseX == 5
\* and rows 0..MaxMouseY
MaxMouseY == 3
\* the most events handled in a run of the whole editor
MaxTurns == 3

(***************************************************************************)
(* Program constants.                                                      *)
(***************************************************************************)
\* settings.TabSize, "default value: '4'"
TabSize == 4
\* NewView: a full-screen view takes 100 percent of the terminal
widthPercent == 100
heightPercent == 100

NL == "\n"
TAB == "\t"
\* the characters of the modelled documents: a word character, a blank,
\* the tab and the newline
Chars == {"a", " ", TAB, NL}

Min(a, b) == IF a < b THEN a ELSE b
Max(a, b) == IF a > b THEN a ELSE b
Clamp(x, lo, hi) == IF x < lo THEN lo ELSE IF x > hi THEN hi ELSE x

(***************************************************************************)
(* Buffer: the document is a sequence of characters; buf.lines is that     *)
(* sequence split at the newlines.  A buffer is [text, path, name, dirty]. *)
(***************************************************************************)
RECURSIVE SplitLines(_)
SplitLines(t) ==
    IF \E i \in 1..Len(t) : t[i] = NL
    THEN LET i == CHOOSE k \in 1..Len(t) :
                      t[k] = NL /\ \A j \in 1..(k-1) : t[j] # NL
         IN  <<SubSeq(t, 1, i-1)>> \o SplitLines(SubSeq(t, i+1, Len(t)))
    ELSE <<t>>

\* buf.lines; line number y of the code is Lines(buf)[y+1]
Lines(buf) == SplitLines(buf.text)
\* len(v.buf.lines)
NumLines(buf) == Len(Lines(buf))
\* buf.lines[y], the empty line when y is no line of the buffer
LineAt(buf, y) == IF y >= 0 /\ y < NumLines(buf) THEN Lines(buf)[y+1] ELSE <<>>
\* Count(s): the number of characters of s
Count(s) == Len(s)
\* buf.Len()
BufLen(buf) == Len(buf.text)

\* NewBuffer(text, path)
NewBuffer(text, path) == [text |-> text, path |-> path, name |-> path, dirty |-> FALSE]

\* Buffer.Insert(offset, text): the offset is clamped to [0, length]
BufInsert(buf, offset, text) ==
    LET o == Clamp(offset, 0, BufLen(buf))
    IN  [buf EXCEPT !.text = SubSeq(buf.text, 1, o) \o text
                               \o SubSeq(buf.text, o+1, Len(buf.text)),
                    !.dirty = TRUE]

\* the text Buffer.Remove(from, to) returns
BufRemoved(buf, from, to) ==
    LET f == Clamp(from, 0, BufLen(buf))
        t == Clamp(to, f, BufLen(buf))
    IN  SubSeq(buf.text, f+1, t)

\* Buffer.Remove(from, to): both offsets are clamped to [0, length]
BufRemove(buf, from, to) ==
    LET f == Clamp(from, 0, BufLen(buf))
        t == Clamp(to, f, BufLen(buf))
    IN  [buf EXCEPT !.text = SubSeq(buf.text, 1, f)
                               \o SubSeq(buf.text, t+1, Len(buf.text)),
                    !.dirty = TRUE]

\* ToCharPos(x, y, buf): the offset of column x of line y
RECURSIVE ToCharPos(_, _, _)
ToCharPos(x, y, buf) ==
    IF y <= 0 THEN x
    ELSE Count(LineAt(buf, y-1)) + 1 + ToCharPos(x, y-1, buf)

\* FromCharPos(loc, buf): the <<x, y>> of an offset within [0, length]
RECURSIVE FromCharPosFrom(_, _, _)
FromCharPosFrom(loc, y, buf) ==
    IF y >= NumLines(buf) - 1 \/ loc <= Count(LineAt(buf, y))
    THEN <<loc, y>>
    ELSE FromCharPosFrom(loc - Count(LineAt(buf, y)) - 1, y+1, buf)

FromCharPos(loc, buf) == FromCharPosFrom(loc, 0, buf)

(***************************************************************************)
(* Cursor: [x, y, curSelection, origSelection, lastVisualX].  The selection*)
(* is <<curSelection[0], curSelection[1]>> of the code, the anchor first.  *)
(***************************************************************************)
\* the word characters
IsWordChar(ch) == ch = "a"

\* the visual column of logical column x of a line: a tab reaches to the
\* next multiple of TabSize
RECURSIVE VisualX(_, _)
VisualX(line, x) ==
    IF x <= 0 THEN 0
    ELSE LET p == VisualX(line, x-1)
         IN  IF x <= Len(line) /\ line[x] = TAB
             THEN ((p \div TabSize) + 1) * TabSize
             ELSE p + 1

\* Cursor.GetVisualX()
GetVisualX(v) == VisualX(LineAt(v.buf, v.cursor.y), v.cursor.x)

\* Cursor.GetCharPosInLine(lineNum, visualPos): the logical column whose
\* rendered cells hold visualPos (a cell inside a tab is the tab's column);
\* past the end of the line the columns go on one per cell
GetCharPosInLine(v, lineNum, visualPos) ==
    LET line == LineAt(v.buf, lineNum)
        n == Count(line)
    IN  IF visualPos >= VisualX(line, n)
        THEN n + (visualPos - VisualX(line, n))
        ELSE CHOOSE c \in 0..n :
                 /\ VisualX(line, c) <= visualPos
                 /\ \A d \in (c+1)..n : VisualX(line, d) > visualPos

\* Cursor.Loc()
Loc(v) == ToCharPos(v.cursor.x, v.cursor.y, v.buf)

\* Cursor.SetLoc(offset): the offset is clamped to [0, length]
SetLoc(v, offset) ==
    LET Seen(w) == [w EXCEPT !.cursor.lastVisualX = GetVisualX(w)]
        At(p) == Seen([v EXCEPT !.cursor.x = p[1], !.cursor.y = p[2]])
    IN  At(FromCharPos(Clamp(offset, 0, BufLen(v.buf)), v.buf))

\* Cursor.HasSelection()
HasSelection(v) == v.cursor.curSelection[1] # v.cursor.curSelection[2]

\* Cursor.ResetSelection(): the anchor collapses to the active edge, which
\* is the cursor
ResetSelection(v) ==
    LET At(loc) == [v EXCEPT !.cursor.curSelection = <<loc, loc>>]
    IN  At(Loc(v))

\* Cursor.GetSelection(): the selected text
GetSelection(v) ==
    LET a == Min(v.cursor.curSelection[1], v.cursor.curSelection[2])
        b == Max(v.cursor.curSelection[1], v.cursor.curSelection[2])
    IN  BufRemoved(v.buf, a, b)

\* Cursor.Left(): one character back, to the end of the line above at
\* column 0
Left(v) ==
    LET Seen(w) == [w EXCEPT !.cursor.lastVisualX = GetVisualX(w)]
    IN  Seen(IF v.cursor.x > 0
             THEN [v EXCEPT !.cursor.x = v.cursor.x - 1]
             ELSE IF v.cursor.y > 0
                  THEN [v EXCEPT !.cursor.y = v.cursor.y - 1,
                                 !.cursor.x = Count(LineAt(v.buf, v.cursor.y - 1))]
                  ELSE v)

\* Cursor.Right(): one character on, to column 0 of the line below at the
\* end of a line
Right(v) ==
    LET Seen(w) == [w EXCEPT !.cursor.lastVisualX = GetVisualX(w)]
    IN  Seen(IF v.cursor.x < Count(LineAt(v.buf, v.cursor.y))
             THEN [v EXCEPT !.cursor.x = v.cursor.x + 1]
             ELSE IF v.cursor.y < NumLines(v.buf) - 1
                  THEN [v EXCEPT !.cursor.y = v.cursor.y + 1, !.cursor.x = 0]
                  ELSE v)

\* Cursor.Up(): to the line above, at the desired visual column or the end
\* of the line
Up(v) ==
    IF v.cursor.y > 0
    THEN LET y == v.cursor.y - 1
         IN  [v EXCEPT !.cursor.y = y,
                       !.cursor.x = Min(GetCharPosInLine(v, y, v.cursor.lastVisualX),
                                        Count(LineAt(v.buf, y)))]
    ELSE v

\* Cursor.Down(): to the line below, at the desired visual column or the end
\* of the line
Down(v) ==
    IF v.cursor.y < NumLines(v.buf) - 1
    THEN LET y == v.cursor.y + 1
         IN  [v EXCEPT !.cursor.y = y,
                       !.cursor.x = Min(GetCharPosInLine(v, y, v.cursor.lastVisualX),
                                        Count(LineAt(v.buf, y)))]
    ELSE v

\* the columns [from, to) of the word of a line at column x: the run of
\* word characters around x, or the one character at x that is none
WordStart(line, x) ==
    IF IsWordChar(line[x+1])
    THEN CHOOSE s \in 0..x :
             /\ \A k \in s..x : IsWordChar(line[k+1])
             /\ (s = 0 \/ ~IsWordChar(line[s]))
    ELSE x

WordEnd(line, x) ==
    IF IsWordChar(line[x+1])
    THEN CHOOSE e \in (x+1)..Len(line) :
             /\ \A k \in x..(e-1) : IsWordChar(line[k+1])
             /\ (e = Len(line) \/ ~IsWordChar(line[e+1]))
    ELSE x + 1

\* the offsets <<from, to>> of the word containing the cursor; the cursor
\* past the last character of a line is on that character; none on an
\* empty line
WordAt(v) ==
    LET In(line, x) == <<ToCharPos(WordStart(line, x), v.cursor.y, v.buf),
                         ToCharPos(WordEnd(line, x), v.cursor.y, v.buf)>>
        On(line) == In(line, Min(v.cursor.x, Count(line) - 1))
    IN  On(LineAt(v.buf, v.cursor.y))

\* the offsets <<from, to>> of the line containing the cursor
LineOf(v) ==
    <<ToCharPos(0, v.cursor.y, v.buf),
      ToCharPos(Count(LineAt(v.buf, v.cursor.y)), v.cursor.y, v.buf)>>

\* Cursor.SelectWord()
SelectWord(v) ==
    LET Select(w) == [v EXCEPT !.cursor.curSelection = w, !.cursor.origSelection = w]
    IN  IF Count(LineAt(v.buf, v.cursor.y)) = 0 THEN v ELSE Select(WordAt(v))

\* Cursor.SelectLine()
SelectLine(v) ==
    LET Select(l) == [v EXCEPT !.cursor.curSelection = l, !.cursor.origSelection = l]
    IN  Select(LineOf(v))

\* Cursor.AddWordToSelection(): the word of the original click stays, the
\* far edge moves to the boundary of the word at the drag point
AddWordToSelection(v) ==
    LET orig == v.cursor.origSelection
        Extend(loc) ==
            IF Count(LineAt(v.buf, v.cursor.y)) = 0 \/ (loc >= orig[1] /\ loc < orig[2])
            THEN [v EXCEPT !.cursor.curSelection = orig]
            ELSE IF loc < orig[1]
                 THEN [v EXCEPT !.cursor.curSelection = <<WordAt(v)[1], orig[2]>>]
                 ELSE [v EXCEPT !.cursor.curSelection = <<orig[1], WordAt(v)[2]>>]
    IN  Extend(Loc(v))

\* Cursor.AddLineToSelection(): the line of the original click stays, the
\* far edge moves to the boundary of the line at the drag point
AddLineToSelection(v) ==
    LET orig == v.cursor.origSelection
        Extend(loc) ==
            IF loc >= orig[1] /\ loc <= orig[2]
            THEN [v EXCEPT !.cursor.curSelection = orig]
            ELSE IF loc < orig[1]
                 THEN [v EXCEPT !.cursor.curSelection = <<LineOf(v)[1], orig[2]>>]
                 ELSE [v EXCEPT !.cursor.curSelection = <<orig[1], LineOf(v)[2]>>]
    IN  Extend(Loc(v))

(***************************************************************************)
(* EventHandler: [undo, redo, prevKind, curKind].  A transaction is        *)
(* [ops, before, after]: the edit operations in the order they were made   *)
(* and the cursor before and after them.  An operation is                  *)
(* [eventType, start, text]; a removal keeps the text it removed, which    *)
(* makes its inverse computable.  The handler reads the cursor of its view *)
(* when it is called: before is the cursor at the Insert or Remove call    *)
(* that opens the transaction, after is the cursor found when the          *)
(* transaction is undone.                                                  *)
(***************************************************************************)
\* the kinds of event that type one character
TypingKinds == {"Rune", "Space"}

\* isBoundary(prevEventKind, nextEventKind): a typing run goes on only from
\* one typed character to the next
isBoundary(prevEventKind, nextEventKind) ==
    ~(prevEventKind \in TypingKinds /\ nextEventKind \in TypingKinds)

\* NewEventHandler(v)
NewEventHandler == [undo |-> <<>>, redo |-> <<>>, prevKind |-> "Other", curKind |-> "None"]

\* the text operation applied to a buffer
ExecuteTextEvent(buf, op) ==
    IF op.eventType = "Insert"
    THEN BufInsert(buf, op.start, op.text)
    ELSE BufRemove(buf, op.start, op.start + Count(op.text))

\* the inverse of a text operation applied to a buffer
UndoTextEvent(buf, op) ==
    IF op.eventType = "Insert"
    THEN BufRemove(buf, op.start, op.start + Count(op.text))
    ELSE BufInsert(buf, op.start, op.text)

RECURSIVE ApplyForward(_, _)
ApplyForward(buf, ops) ==
    IF ops = <<>> THEN buf
    ELSE ApplyForward(ExecuteTextEvent(buf, Head(ops)), Tail(ops))

RECURSIVE ApplyInverses(_, _)
ApplyInverses(buf, ops) ==
    IF ops = <<>> THEN buf
    ELSE ApplyInverses(UndoTextEvent(buf, ops[Len(ops)]), SubSeq(ops, 1, Len(ops)-1))

\* Record(transaction), with the coalescing policy: a single typed
\* character that continues the insertion on top of the undo stack joins
\* that transaction; any other operation is a new transaction.  The redo
\* stack is cleared.
Execute(v, op) ==
    LET undo == v.eh.undo
        top == undo[Len(undo)]
        lastOp == top.ops[Len(top.ops)]
        joins == /\ ~isBoundary(v.eh.prevKind, v.eh.curKind)
                 /\ op.eventType = "Insert" /\ Count(op.text) = 1
                 /\ Len(undo) > 0
                 /\ lastOp.eventType = "Insert"
                 /\ op.start = lastOp.start + Count(lastOp.text)
        t == [ops |-> <<op>>, before |-> v.cursor, after |-> v.cursor]
    IN  [v EXCEPT !.buf = ExecuteTextEvent(v.buf, op),
                  !.eh.redo = <<>>,
                  !.eh.undo = IF joins
                              THEN [undo EXCEPT ![Len(undo)].ops = Append(top.ops, op)]
                              ELSE Append(undo, t)]

\* EventHandler.Insert(start, text)
EhInsert(v, start, text) ==
    Execute(v, [eventType |-> "Insert",
                start |-> Clamp(start, 0, BufLen(v.buf)),
                text |-> text])

\* EventHandler.Remove(start, end)
EhRemove(v, start, end) ==
    Execute(v, [eventType |-> "Remove",
                start |-> Clamp(start, 0, BufLen(v.buf)),
                text |-> BufRemoved(v.buf, start, end)])

\* EventHandler.Undo()
EhUndo(v) ==
    IF v.eh.undo = <<>> THEN v
    ELSE LET n == Len(v.eh.undo)
             t == v.eh.undo[n]
         IN  [v EXCEPT !.buf = ApplyInverses(v.buf, t.ops),
                       !.cursor = t.before,
                       !.eh.undo = SubSeq(v.eh.undo, 1, n-1),
                       !.eh.redo = Append(v.eh.redo, [t EXCEPT !.after = v.cursor])]

\* EventHandler.Redo()
EhRedo(v) ==
    IF v.eh.redo = <<>> THEN v
    ELSE LET n == Len(v.eh.redo)
             t == v.eh.redo[n]
         IN  [v EXCEPT !.buf = ApplyForward(v.buf, t.ops),
                       !.cursor = t.after,
                       !.eh.redo = SubSeq(v.eh.redo, 1, n-1),
                       !.eh.undo = Append(v.eh.undo, t)]

\* Cursor.DeleteSelection(): the selected range is removed as one
\* transaction and the cursor goes to the start of the range
DeleteSelection(v) ==
    LET Delete(a, b) == SetLoc(EhRemove(v, a, b), a)
    IN  Delete(Min(v.cursor.curSelection[1], v.cursor.curSelection[2]),
               Max(v.cursor.curSelection[1], v.cursor.curSelection[2]))

(***************************************************************************)
(* View                                                                    *)
(***************************************************************************)
\* View.UpdateLines(start, end)
UpdateLines(v, start, end) == [v EXCEPT !.updateLines = <<start, end + 1>>]

\* View.Resize(w, h)
Resize(v, w, h) ==
    [v EXCEPT !.width = (w * widthPercent) \div 100,
              !.height = (((h - 1) * heightPercent) \div 100) - 1]

\* ScrollUp with the full step refused when it lands on line 0
ScrollUpStrict(v, n) ==
    IF v.topline - n > 0
    THEN [v EXCEPT !.topline = v.topline - n]
    ELSE IF v.topline > 0
         THEN [v EXCEPT !.topline = v.topline - 1]
         ELSE v

\* View.ScrollUp(n)
ScrollUp(v, n) ==
    IF v.topline - n >= 0
    THEN [v EXCEPT !.topline = v.topline - n]
    ELSE IF v.topline > 0
         THEN [v EXCEPT !.topline = v.topline - 1]
         ELSE v

\* ScrollDown with the single line taken while any line is below the top
ScrollDownToLastLine(v, n) ==
    IF v.topline + n <= NumLines(v.buf) - v.height
    THEN [v EXCEPT !.topline = v.topline + n]
    ELSE IF v.topline < NumLines(v.buf) - 1
         THEN [v EXCEPT !.topline = v.topline + 1]
         ELSE v

\* View.ScrollDown(n)
ScrollDown(v, n) ==
    IF v.topline + n <= NumLines(v.buf) - v.height
    THEN [v EXCEPT !.topline = v.topline + n]
    ELSE IF v.topline < NumLines(v.buf) - v.height
         THEN [v EXCEPT !.topline = v.topline + 1]
         ELSE v

\* View.PageUp()
PageUp(v) ==
    IF v.topline > v.height
    THEN ScrollUp(v, v.height)
    ELSE [v EXCEPT !.topline = 0]

\* PageDown snapping to the end of a document shorter than the viewport too
PageDownAlwaysSnaps(v) ==
    IF NumLines(v.buf) - (v.topline + v.height) > v.height
    THEN ScrollDown(v, v.height)
    ELSE [v EXCEPT !.topline = NumLines(v.buf) - v.height]

\* View.PageDown()
PageDown(v) ==
    IF NumLines(v.buf) - (v.topline + v.height) > v.height
    THEN ScrollDown(v, v.height)
    ELSE IF NumLines(v.buf) >= v.height
         THEN [v EXCEPT !.topline = NumLines(v.buf) - v.height]
         ELSE v

\* View.HalfPageUp()
HalfPageUp(v) ==
    IF v.topline > v.height \div 2
    THEN ScrollUp(v, v.height \div 2)
    ELSE [v EXCEPT !.topline = 0]

\* View.HalfPageDown()
HalfPageDown(v) ==
    IF NumLines(v.buf) - (v.topline + v.height) > v.height \div 2
    THEN ScrollDown(v, v.height \div 2)
    ELSE IF NumLines(v.buf) >= v.height
         THEN [v EXCEPT !.topline = NumLines(v.buf) - v.height]
         ELSE v

\* View.Copy(): the selection goes to the system clipboard, which is no
\* part of the view
Copy(v) == v

\* Cut without the test of clipboard.Unsupported
CutUnchecked(v) == IF HasSelection(v) THEN ResetSelection(DeleteSelection(v)) ELSE v

\* View.Cut()
Cut(v) ==
    IF HasSelection(v) /\ ~v.clipboard.Unsupported
    THEN ResetSelection(DeleteSelection(v))
    ELSE v

\* View.Paste(): clip is what clipboard.ReadAll returns
Paste(v, clip) ==
    LET Advance(v2) == SetLoc(v2, Loc(v2) + Count(clip))
        Insert(v1) == Advance(EhInsert(v1, Loc(v1), clip))
    IN  IF ~v.clipboard.Unsupported
        THEN Insert(IF HasSelection(v) THEN ResetSelection(DeleteSelection(v)) ELSE v)
        ELSE v

\* View.SelectAll()
SelectAll(v) ==
    [v EXCEPT !.cursor.curSelection = <<BufLen(v.buf), 0>>,
              !.cursor.x = 0,
              !.cursor.y = 0]

\* strings.ToLower, on the answers of the model
ToLower(s) == CASE s = "YES" -> "yes" [] s = "Y" -> "y" [] OTHER -> s

\* CanClose taking any answer that is not a cancel for a yes
CanCloseUnlessCanceled(v, quit, canceled) == IF v.buf.dirty THEN ~canceled ELSE TRUE

\* View.CanClose(msg): quit and canceled are what the prompt returns
CanClose(v, quit, canceled) ==
    IF v.buf.dirty
    THEN ~canceled /\ (ToLower(quit) = "yes" \/ ToLower(quit) = "y")
    ELSE TRUE

\* View.OpenFile(): quit and canceled answer the unsaved-changes prompt,
\* fileCanceled the file prompt; file is what ReadFile returns for the
\* name given, [err, text]
OpenFile(v, quit, canceled, fileCanceled, filename, file) ==
    IF CanClose(v, quit, canceled)
    THEN IF fileCanceled THEN v
         ELSE IF file.err THEN v
         ELSE [v EXCEPT !.buf = NewBuffer(file.text, filename)]
    ELSE v

\* View.OpenFile(): whether ioutil.ReadFile is called
OpenFileReads(v, quit, canceled, fileCanceled) ==
    CanClose(v, quit, canceled) /\ ~fileCanceled

\* Relocate, the horizontal part
RelocateColumn(v, cx) ==
    LET Right1(v3) ==
            IF cx + v3.lineNumOffset + 1 > v3.leftCol + v3.width
            THEN [v3 EXCEPT !.leftCol = cx - v3.width + v3.lineNumOffset + 1]
            ELSE v3
    IN  Right1(IF cx < v.leftCol THEN [v EXCEPT !.leftCol = cx] ELSE v)

\* the vertical part of Relocate taking the line below the viewport for
\* its last line
RelocateLineLate(v, cy) ==
    LET Down1(v1) ==
            IF cy > v1.topline + v1.height
            THEN [v1 EXCEPT !.topline = cy - v1.height + 1]
            ELSE v1
    IN  Down1(IF cy < v.topline THEN [v EXCEPT !.topline = cy] ELSE v)

\* Relocate, the vertical part
RelocateLine(v, cy) ==
    LET Down1(v1) ==
            IF cy > v1.topline + v1.height - 1
            THEN [v1 EXCEPT !.topline = cy - v1.height + 1]
            ELSE v1
    IN  Down1(IF cy < v.topline THEN [v EXCEPT !.topline = cy] ELSE v)

\* View.Relocate()
Relocate(v) == RelocateColumn(RelocateLine(v, v.cursor.y), GetVisualX(v))

\* MoveToMouseClick scrolling two lines for a click below the last row
MoveToMouseClickScrollsTwo(v, x, y) ==
    LET below == y - v.topline > v.height - 1
        Seen(v2) == [v2 EXCEPT !.cursor.lastVisualX = GetVisualX(v2)]
        Put(v1, x2, y3) ==
            Seen([v1 EXCEPT !.cursor.x = IF x2 > Count(LineAt(v1.buf, y3))
                                         THEN Count(LineAt(v1.buf, y3))
                                         ELSE x2,
                            !.cursor.y = y3])
        Column(v1, y3) == Put(v1, GetCharPosInLine(v1, y3, IF x < 0 THEN 0 ELSE x), y3)
        NotAbove(v1, y2) == Column(v1, IF y2 < 0 THEN 0 ELSE y2)
        NotBelow(v1, y1) ==
            NotAbove(v1, IF y1 >= NumLines(v1.buf) THEN NumLines(v1.buf) - 1 ELSE y1)
        Scrolled(v1) == NotBelow(v1, IF below THEN v1.height + v1.topline - 1 ELSE y)
    IN  Scrolled(IF below THEN ScrollDown(v, 2) ELSE v)

\* View.MoveToMouseClick(x, y)
MoveToMouseClick(v, x, y) ==
    LET below == y - v.topline > v.height - 1
        Seen(v2) == [v2 EXCEPT !.cursor.lastVisualX = GetVisualX(v2)]
        Put(v1, x2, y3) ==
            Seen([v1 EXCEPT !.cursor.x = IF x2 > Count(LineAt(v1.buf, y3))
                                         THEN Count(LineAt(v1.buf, y3))
                                         ELSE x2,
                            !.cursor.y = y3])
        Column(v1, y3) == Put(v1, GetCharPosInLine(v1, y3, IF x < 0 THEN 0 ELSE x), y3)
        NotAbove(v1, y2) == Column(v1, IF y2 < 0 THEN 0 ELSE y2)
        NotBelow(v1, y1) ==
            NotAbove(v1, IF y1 >= NumLines(v1.buf) THEN NumLines(v1.buf) - 1 ELSE y1)
        Scrolled(v1) == NotBelow(v1, IF below THEN v1.height + v1.topline - 1 ELSE y)
    IN  Scrolled(IF below THEN ScrollDown(v, 1) ELSE v)

\* Save naming the buffer before it looks at canceled
SaveNamesFirst(v, filename, canceled, err) ==
    LET Write(v1) == IF err THEN v1 ELSE [v1 EXCEPT !.buf.dirty = FALSE]
        Named(v1) == IF v.buf.path = "" /\ canceled THEN v1 ELSE Write(v1)
    IN  Named(IF v.buf.path = ""
              THEN [v EXCEPT !.buf.path = filename, !.buf.name = filename]
              ELSE v)

\* View.Save(): filename and canceled are what the filename prompt returns,
\* err whether writing the file fails
Save(v, filename, canceled, err) ==
    LET Write(v1) == IF err THEN v1 ELSE [v1 EXCEPT !.buf.dirty = FALSE]
    IN  IF v.buf.path = "" /\ canceled THEN v
        ELSE Write(IF v.buf.path = ""
                   THEN [v EXCEPT !.buf.path = filename, !.buf.name = filename]
                   ELSE v)

\* v.UpdateLines(v.topline, v.topline+v.height), as the handlers call it
UpdateView(v) == UpdateLines(v, v.topline, v.topline + v.height)

\* v.UpdateLines(v.cursor.y, v.cursor.y), as the handlers call it
UpdateCursorLine(v) == UpdateLines(v, v.cursor.y, v.cursor.y)

\* v.cursor.lastVisualX = v.cursor.GetVisualX()
SetLastVisualX(v) == [v EXCEPT !.cursor.lastVisualX = GetVisualX(v)]

\* if v.cursor.HasSelection() { v.cursor.DeleteSelection(); v.cursor.ResetSelection() }
DeleteIfSelected(v) == IF HasSelection(v) THEN ResetSelection(DeleteSelection(v)) ELSE v

\* v.eh.Insert(v.cursor.Loc(), text)
InsertAtCursor(v, text) == EhInsert(v, Loc(v), text)

\* HandleEvent, case tcell.KeyEnter
KeyEnter(v) ==
    SetLastVisualX(UpdateView(Right(InsertAtCursor(DeleteIfSelected(v), <<NL>>))))

\* HandleEvent, case tcell.KeySpace
KeySpace(v) ==
    UpdateCursorLine(Right(InsertAtCursor(DeleteIfSelected(v), <<" ">>)))

\* Backspace doing nothing while the cursor is on the second character
KeyBackspaceFromSecond(v) ==
    LET Put(v3, cx, cy) == [v3 EXCEPT !.cursor.x = cx, !.cursor.y = cy]
        RemoveAt(v2, loc, cx, cy) == Put(EhRemove(v2, loc - 1, loc), cx, cy)
        RemoveBefore(v2, cx, cy) == RemoveAt(v2, Loc(v2), cx, cy)
        Back(v1) == RemoveBefore(Right(v1), v1.cursor.x, v1.cursor.y)
    IN  SetLastVisualX(
            IF HasSelection(v)
            THEN UpdateView(ResetSelection(DeleteSelection(v)))
            ELSE IF Loc(v) > 1
                 THEN UpdateView(Back(Left(v)))
                 ELSE v)

\* Backspace removing the character with the cursor already moved left
KeyBackspaceFromLeft(v) ==
    LET RemoveAfter(v1, loc) == EhRemove(v1, loc, loc + 1)
        Back(v1) == RemoveAfter(v1, Loc(v1))
    IN  SetLastVisualX(
            IF HasSelection(v)
            THEN UpdateView(ResetSelection(DeleteSelection(v)))
            ELSE IF Loc(v) > 0
                 THEN UpdateView(Back(Left(v)))
                 ELSE v)

\* HandleEvent, case tcell.KeyBackspace2, tcell.KeyBackspace
KeyBackspace(v) ==
    LET Put(v3, cx, cy) == [v3 EXCEPT !.cursor.x = cx, !.cursor.y = cy]
        RemoveAt(v2, loc, cx, cy) == Put(EhRemove(v2, loc - 1, loc), cx, cy)
        RemoveBefore(v2, cx, cy) == RemoveAt(v2, Loc(v2), cx, cy)
        Back(v1) == RemoveBefore(Right(v1), v1.cursor.x, v1.cursor.y)
    IN  SetLastVisualX(
            IF HasSelection(v)
            THEN UpdateView(ResetSelection(DeleteSelection(v)))
            ELSE IF Loc(v) > 0
                 THEN UpdateView(Back(Left(v)))
                 ELSE v)

\* Spaces(n)
Spaces(n) == [i \in 1..n |-> " "]

RECURSIVE RightTimes(_, _)
RightTimes(v, n) == IF n <= 0 THEN v ELSE RightTimes(Right(v), n - 1)

\* HandleEvent, case tcell.KeyTab
KeyTab(v) ==
    LET Insert(v1) ==
            IF v1.settings.TabsToSpaces
            THEN RightTimes(InsertAtCursor(v1, Spaces(TabSize)), TabSize)
            ELSE Right(InsertAtCursor(v1, <<TAB>>))
    IN  UpdateCursorLine(Insert(DeleteIfSelected(v)))

\* HandleEvent, case tcell.KeyRune
KeyRune(v, rune) ==
    Right(InsertAtCursor(IF HasSelection(v)
                         THEN UpdateView(ResetSelection(DeleteSelection(v)))
                         ELSE UpdateCursorLine(v),
                         <<rune>>))

\* HandleEvent, case tcell.KeyCtrlZ
KeyCtrlZ(v) == UpdateView(EhUndo(v))

\* Ctrl-Y undoing as Ctrl-Z does
KeyCtrlYUndoes(v) == UpdateView(EhUndo(v))

\* HandleEvent, case tcell.KeyCtrlY
KeyCtrlY(v) == UpdateView(EhRedo(v))

\* HandleEvent, case tcell.KeyEnd
KeyEnd(v) ==
    IF v.height > NumLines(v.buf)
    THEN [v EXCEPT !.topline = 0]
    ELSE [v EXCEPT !.topline = NumLines(v.buf) - v.height]

\* Button1 with the drag after a double click extending by characters
Button1DragsByCharacter(v, x, y, fast) ==
    LET origX == v.cursor.x
        origY == v.cursor.y
        Single(v1, loc) == [v1 EXCEPT !.doubleClick = FALSE,
                                      !.tripleClick = FALSE,
                                      !.lastClickTime = "now",
                                      !.cursor.curSelection = <<loc, loc>>]
        Drag(v1, loc) == [v1 EXCEPT !.cursor.curSelection[2] = loc]
        Clicked(v1) ==
            IF v1.mouseReleased
            THEN IF fast /\ origX = v1.cursor.x /\ origY = v1.cursor.y
                 THEN IF v1.doubleClick
                      THEN SelectLine([v1 EXCEPT !.lastClickTime = "now",
                                                 !.tripleClick = TRUE,
                                                 !.doubleClick = FALSE])
                      ELSE SelectWord([v1 EXCEPT !.lastClickTime = "now",
                                                 !.doubleClick = TRUE,
                                                 !.tripleClick = FALSE])
                 ELSE Single(v1, Loc(v1))
            ELSE IF v1.tripleClick THEN AddLineToSelection(v1)
                 ELSE Drag(v1, Loc(v1))
        Pressed(v2) == [v2 EXCEPT !.mouseReleased = FALSE]
    IN  Pressed(Clicked(MoveToMouseClick(v, x, y)))

\* HandleEvent, case tcell.Button1: e.fast says whether the time since
\* lastClickTime is below doubleClickThreshold
Button1(v, x, y, fast) ==
    LET origX == v.cursor.x
        origY == v.cursor.y
        Single(v1, loc) == [v1 EXCEPT !.doubleClick = FALSE,
                                      !.tripleClick = FALSE,
                                      !.lastClickTime = "now",
                                      !.cursor.curSelection = <<loc, loc>>]
        Drag(v1, loc) == [v1 EXCEPT !.cursor.curSelection[2] = loc]
        Clicked(v1) ==
            IF v1.mouseReleased
            THEN IF fast /\ origX = v1.cursor.x /\ origY = v1.cursor.y
                 THEN IF v1.doubleClick
                      THEN SelectLine([v1 EXCEPT !.lastClickTime = "now",
                                                 !.tripleClick = TRUE,
                                                 !.doubleClick = FALSE])
                      ELSE SelectWord([v1 EXCEPT !.lastClickTime = "now",
                                                 !.doubleClick = TRUE,
                                                 !.tripleClick = FALSE])
                 ELSE Single(v1, Loc(v1))
            ELSE IF v1.tripleClick THEN AddLineToSelection(v1)
                 ELSE IF v1.doubleClick THEN AddWordToSelection(v1)
                 ELSE Drag(v1, Loc(v1))
        Pressed(v2) == [v2 EXCEPT !.mouseReleased = FALSE]
    IN  Pressed(Clicked(MoveToMouseClick(v, x, y)))

\* HandleEvent, case tcell.ButtonNone
ButtonNone(v, x, y) ==
    LET Drag(m, loc) == [m EXCEPT !.cursor.curSelection[2] = loc]
        Moved(m) == Drag(m, Loc(m))
        Released(v1) == [v1 EXCEPT !.mouseReleased = TRUE]
    IN  IF ~v.mouseReleased
        THEN Released(IF ~v.doubleClick /\ ~v.tripleClick
                      THEN Moved(MoveToMouseClick(v, x, y))
                      ELSE v)
        ELSE v

\* the events that do not relocate the view
NoRelocate == {"Home", "End", "PgUp", "PgDn", "CtrlU", "CtrlD",
               "ButtonNone", "WheelUp", "WheelDown"}

\* the kinds of key event, of mouse event, and the resize event
KeyKinds == {"Up", "Down", "Left", "Right", "Enter", "Space", "Backspace", "Tab",
             "CtrlS", "CtrlF", "CtrlZ", "CtrlY", "CtrlC", "CtrlX", "CtrlV",
             "CtrlA", "CtrlO", "Home", "End", "PgUp", "PgDn", "CtrlU", "CtrlD",
             "Rune"}
MouseKinds == {"Button1", "ButtonNone", "WheelUp", "WheelDown"}

\* the switch of HandleEvent; e carries the event and what the environment
\* answers while it is handled.  The find keys (Ctrl-F, Ctrl-N, Ctrl-P) set
\* searchStart and start a search, which is no part of the view.
Dispatch(v, e) ==
    LET mx == e.x - (v.lineNumOffset - v.leftCol) - 1
        my == e.y + v.topline - 1
    IN  CASE e.kind = "Resize" -> Resize(v, e.w, e.h)
          [] e.kind = "Up" -> Up(ResetSelection(v))
          [] e.kind = "Down" -> Down(ResetSelection(v))
          [] e.kind = "Left" -> Left(ResetSelection(v))
          [] e.kind = "Right" -> Right(ResetSelection(v))
          [] e.kind = "Enter" -> KeyEnter(v)
          [] e.kind = "Space" -> KeySpace(v)
          [] e.kind = "Backspace" -> KeyBackspace(v)
          [] e.kind = "Tab" -> KeyTab(v)
          [] e.kind = "CtrlS" -> Save(v, e.filename, e.canceled, e.err)
          [] e.kind = "CtrlF" -> v
          [] e.kind = "CtrlZ" -> KeyCtrlZ(v)
          [] e.kind = "CtrlY" -> KeyCtrlY(v)
          [] e.kind = "CtrlC" ->
                UpdateView(Copy(v))
          [] e.kind = "CtrlX" ->
                UpdateView(Cut(v))
          [] e.kind = "CtrlV" ->
                UpdateView(Paste(v, e.clip))
          [] e.kind = "CtrlA" -> SelectAll(v)
          [] e.kind = "CtrlO" ->
                UpdateView(OpenFile(v, e.quit, e.canceled, e.fileCanceled, e.filename, e.file))
          [] e.kind = "Home" -> [v EXCEPT !.topline = 0]
          [] e.kind = "End" -> KeyEnd(v)
          [] e.kind = "PgUp" -> PageUp(v)
          [] e.kind = "PgDn" -> PageDown(v)
          [] e.kind = "CtrlU" -> HalfPageUp(v)
          [] e.kind = "CtrlD" -> HalfPageDown(v)
          [] e.kind = "Rune" -> KeyRune(v, e.rune)
          [] e.kind = "Button1" -> Button1(v, mx, my, e.fast)
          [] e.kind = "ButtonNone" -> ButtonNone(v, mx, my)
          [] e.kind = "WheelUp" ->
                UpdateView(ScrollUp(v, 2))
          [] e.kind = "WheelDown" ->
                UpdateView(ScrollDown(v, 2))

\* HandleEvent relocating after every event
HandleEventAlwaysRelocates(v, e) ==
    LET Handled(v2) ==
            [v2 EXCEPT !.eh.prevKind = IF e.kind \in TypingKinds THEN e.kind ELSE "Other",
                       !.eh.curKind = "None"]
        Shown(v1) == Handled(Relocate(v1))
    IN  Shown(Dispatch(UpdateLines([v EXCEPT !.eh.curKind = e.kind], -2, 0), e))

\* View.HandleEvent(event)
HandleEvent(v, e) ==
    LET Handled(v2) ==
            [v2 EXCEPT !.eh.prevKind = IF e.kind \in TypingKinds THEN e.kind ELSE "Other",
                       !.eh.curKind = "None"]
        Shown(v1) == Handled(IF e.kind \in NoRelocate THEN v1 ELSE Relocate(v1))
    IN  Shown(Dispatch(UpdateLines([v EXCEPT !.eh.curKind = e.kind], -2, 0), e))

\* View.DisplayView(), its assignment to lineNumOffset: the digits of the
\* number of lines, and one
DisplayView(v) ==
    [v EXCEPT !.lineNumOffset = (IF NumLines(v.buf) < 10 THEN 1 ELSE 2) + 1]

(***************************************************************************)
(* The state: the fields of the View, the clipboard and the settings it    *)
(* reads, and a record of the last event for the properties.               *)
(***************************************************************************)
VARIABLES
    cursor,         \* v.cursor
    topline,        \* v.topline
    leftCol,        \* v.leftCol
    width,          \* v.width
    height,         \* v.height
    lineNumOffset,  \* v.lineNumOffset
    eh,             \* v.eh
    buf,            \* v.buf
    mouseReleased,  \* v.mouseReleased
    lastClickTime,  \* v.lastClickTime: "zero" or the time of a click, "now"
    doubleClick,    \* v.doubleClick
    tripleClick,    \* v.tripleClick
    updateLines,    \* v.updateLines
    clipboard,      \* [Unsupported]: clipboard.Unsupported
    settings,       \* [TabsToSpaces]: settings.TabsToSpaces
    turns,          \* the number of events handled so far
    last            \* the last step taken, for the properties

vars == <<cursor, topline, leftCol, width, height, lineNumOffset, eh, buf,
          mouseReleased, lastClickTime, doubleClick, tripleClick, updateLines,
          clipboard, settings, turns, last>>

\* the view as one record
View ==
    [cursor |-> cursor, topline |-> topline, leftCol |-> leftCol,
     width |-> width, height |-> height, lineNumOffset |-> lineNumOffset,
     eh |-> eh, buf |-> buf, mouseReleased |-> mouseReleased,
     lastClickTime |-> lastClickTime, doubleClick |-> doubleClick,
     tripleClick |-> tripleClick, updateLines |-> updateLines,
     clipboard |-> clipboard, settings |-> settings]

\* the state is the view w
IsView(w) ==
    /\ cursor = w.cursor
    /\ topline = w.topline
    /\ leftCol = w.leftCol
    /\ width = w.width
    /\ height = w.height
    /\ lineNumOffset = w.lineNumOffset
    /\ eh = w.eh
    /\ buf = w.buf
    /\ mouseReleased = w.mouseReleased
    /\ lastClickTime = w.lastClickTime
    /\ doubleClick = w.doubleClick
    /\ tripleClick = w.tripleClick
    /\ updateLines = w.updateLines
    /\ clipboard = w.clipboard
    /\ settings = w.settings

\* the next state is the view w
SetView(w) ==
    /\ cursor' = w.cursor
    /\ topline' = w.topline
    /\ leftCol' = w.leftCol
    /\ width' = w.width
    /\ height' = w.height
    /\ lineNumOffset' = w.lineNumOffset
    /\ eh' = w.eh
    /\ buf' = w.buf
    /\ mouseReleased' = w.mouseReleased
    /\ lastClickTime' = w.lastClickTime
    /\ doubleClick' = w.doubleClick
    /\ tripleClick' = w.tripleClick
    /\ updateLines' = w.updateLines
    /\ clipboard' = w.clipboard
    /\ settings' = w.settings

\* the terminal sizes of the model
ScreenWs == {MaxScreenW - 1, MaxScreenW}
ScreenHs == {MaxScreenH - 1, MaxScreenH}
\* the screen cells of the mouse events of the model
MouseXs == 2..MaxMouseX
MouseYs == 0..MaxMouseY

\* the documents a file holds
FileDocs == {<<"a", NL, "a">>, <<"a", " ", "a">>, <<TAB, "a">>}
\* the texts the clipboard holds
ClipTexts == {<<>>, <<"a", NL>>}

\* NewViewWidthHeight(buf, 100, 100) on a screen of w columns and h rows
NewView(b, w, h) ==
    LET v0 == [cursor |-> [x |-> 0, y |-> 0, curSelection |-> <<0, 0>>,
                           origSelection |-> <<0, 0>>, lastVisualX |-> 0],
               topline |-> 0, leftCol |-> 0, width |-> 0, height |-> 0,
               lineNumOffset |-> 0, eh |-> NewEventHandler, buf |-> b,
               mouseReleased |-> TRUE, lastClickTime |-> "zero",
               doubleClick |-> FALSE, tripleClick |-> FALSE,
               updateLines |-> <<0, 0>>,
               clipboard |-> [Unsupported |-> FALSE],
               settings |-> [TabsToSpaces |-> FALSE]]
    IN  UpdateView(Resize(v0, w, h))

\* no step taken yet
NoStep == [kind |-> "None"]

\* the editor starts on an empty buffer or on a file
Init ==
    \E text \in {<<>>} \cup FileDocs, w \in ScreenWs, h \in ScreenHs,
       unsupported \in BOOLEAN :
        /\ IsView([NewView(NewBuffer(text, IF text = <<>> THEN "" ELSE "f"), w, h)
                       EXCEPT !.clipboard.Unsupported = unsupported])
        /\ turns = 0
        /\ last = NoStep

\* an event of a kind, with the inputs no handler of that kind reads
Event(kind) ==
    [kind |-> kind, w |-> 0, h |-> 0, x |-> 0, y |-> 0, fast |-> FALSE,
     rune |-> "a", clip |-> <<>>, filename |-> "f", canceled |-> FALSE,
     err |-> FALSE, quit |-> "no", fileCanceled |-> FALSE,
     file |-> [err |-> TRUE, text |-> <<>>]]

\* the model keeps the document and the edit history within its bounds
Bounded(w) ==
    /\ BufLen(w.buf) <= MaxLen
    /\ Len(w.eh.undo) + Len(w.eh.redo) <= MaxHist

\* one turn of the main loop: the view is displayed, then the event is
\* handled
Turn(e) == HandleEvent(DisplayView(View), e)

\* one more event is handled
Counted == turns' = turns + 1 /\ UNCHANGED last

\* the keys whose handlers read nothing but the view
PlainKeys == KeyKinds \ {"Rune", "CtrlS", "CtrlO", "CtrlV"}

ResizeEvent ==
    /\ turns < MaxTurns
    /\ \E w \in ScreenWs, h \in ScreenHs :
        \E n \in {Turn([Event("Resize") EXCEPT !.w = w, !.h = h])} :
            SetView(n) /\ Counted

KeyEvent ==
    /\ turns < MaxTurns
    /\ \E k \in PlainKeys :
        \E n \in {Turn(Event(k))} :
            Bounded(n) /\ SetView(n) /\ Counted

RuneEvent ==
    /\ turns < MaxTurns
    /\ \E r \in {"a"} :
        \E n \in {Turn([Event("Rune") EXCEPT !.rune = r])} :
            Bounded(n) /\ SetView(n) /\ Counted

PasteEvent ==
    /\ turns < MaxTurns
    /\ \E clip \in ClipTexts :
        \E n \in {Turn([Event("CtrlV") EXCEPT !.clip = clip])} :
            Bounded(n) /\ SetView(n) /\ Counted

SaveEvent ==
    /\ turns < MaxTurns
    /\ \E canceled \in BOOLEAN, err \in BOOLEAN :
        \E n \in {Turn([Event("CtrlS") EXCEPT !.canceled = canceled, !.err = err])} :
            SetView(n) /\ Counted

OpenEvent ==
    /\ turns < MaxTurns
    /\ \E quit \in {"Y", "yes", "no"}, canceled \in BOOLEAN, fileCanceled \in BOOLEAN,
       file \in {[err |-> TRUE, text |-> <<>>]}
                  \cup {[err |-> FALSE, text |-> d] : d \in FileDocs} :
        \E n \in {Turn([Event("CtrlO") EXCEPT !.quit = quit, !.canceled = canceled,
                                            !.fileCanceled = fileCanceled,
                                            !.file = file])} :
            SetView(n) /\ Counted

MouseEvent ==
    /\ turns < MaxTurns
    /\ \E b \in MouseKinds, x \in MouseXs, y \in MouseYs, fast \in BOOLEAN :
        /\ fast => lastClickTime # "zero"
        /\ \E n \in {Turn([Event(b) EXCEPT !.x = x, !.y = y, !.fast = fast])} :
               SetView(n) /\ Counted

Next ==
    \/ ResizeEvent
    \/ KeyEvent
    \/ RuneEvent
    \/ PasteEvent
    \/ SaveEvent
    \/ OpenEvent
    \/ MouseEvent

Spec == Init /\ [][Next]_vars

(***************************************************************************)
(* The viewport operations on their own: the view is drawn from bounded    *)
(* sets and ScrollUp, ScrollDown, the page operations and Relocate are     *)
(* applied to it.  last keeps the operation, its argument and the top line *)
(* it started from.                                                        *)
(***************************************************************************)
\* the most lines of a document the viewport operations are applied to
MaxPureLines == 5
\* the heights 1..MaxPureHeight and widths 1..MaxPureWidth of the viewport
MaxPureHeight == 3
MaxPureWidth == 4
\* the left columns 0..MaxPureLeft
MaxPureLeft == 4
\* the scroll steps 0..MaxScroll
MaxScroll == 4

\* a document of k lines, each the given line
RECURSIVE LinesDoc(_, _)
LinesDoc(k, line) == IF k <= 1 THEN line ELSE line \o <<NL>> \o LinesDoc(k-1, line)

\* a view to scroll: a document of up to MaxPureLines lines, any height,
\* any top line up to the number of lines
ScrollInputs ==
    {[NewView(NewBuffer(LinesDoc(k, <<>>), "f"), MaxScreenW, h + 2)
          EXCEPT !.topline = t, !.lineNumOffset = 2] :
        k \in 1..MaxPureLines, h \in 1..MaxPureHeight, t \in 0..MaxPureLines}

\* a view to relocate: the cursor anywhere in a document with tabs, any
\* top line and left column, any width and height, the gutter of a document
\* of fewer than ten or fewer than a hundred lines
RelocateInputs ==
    {[NewView(NewBuffer(LinesDoc(k, <<"a", TAB, "a">>), "f"), c[5], c[4] + 2)
          EXCEPT !.topline = c[3], !.leftCol = c[6], !.lineNumOffset = c[7],
                 !.cursor.x = c[1], !.cursor.y = c[2]] :
        k \in 1..2,
        c \in (0..3) \X (0..1) \X (0..2) \X (1..2)
                \X (1..MaxPureWidth) \X (0..MaxPureLeft) \X {2, 3}}

InitPure ==
    \E v \in {w \in ScrollInputs \cup RelocateInputs : w.cursor.y < NumLines(w.buf)} :
        /\ IsView(v)
        /\ turns = 0
        /\ last = NoStep

\* the operation applied, its argument and the top line before it
Applied(kind, n) == last' = [kind |-> kind, n |-> n, topline |-> topline]

ScrollUpStep ==
    \E n \in 0..MaxScroll :
        SetView(ScrollUp(View, n)) /\ Applied("ScrollUp", n) /\ UNCHANGED turns

ScrollDownStep ==
    \E n \in 0..MaxScroll :
        SetView(ScrollDown(View, n)) /\ Applied("ScrollDown", n) /\ UNCHANGED turns

PageUpStep ==
    SetView(PageUp(View)) /\ Applied("PageUp", height) /\ UNCHANGED turns

PageDownStep ==
    SetView(PageDown(View)) /\ Applied("PageDown", height) /\ UNCHANGED turns

HalfPageUpStep ==
    SetView(HalfPageUp(View)) /\ Applied("HalfPageUp", height \div 2) /\ UNCHANGED turns

HalfPageDownStep ==
    SetView(HalfPageDown(View)) /\ Applied("HalfPageDown", height \div 2)
        /\ UNCHANGED turns

RelocateStep ==
    SetView(Relocate(View)) /\ Applied("Relocate", 0) /\ UNCHANGED turns

NextPure ==
    \/ ScrollUpStep
    \/ ScrollDownStep
    \/ PageUpStep
    \/ PageDownStep
    \/ HalfPageUpStep
    \/ HalfPageDownStep
    \/ RelocateStep

SpecPure == InitPure /\ [][NextPure]_vars

(***************************************************************************)
(* One scroll call repeated: the direction and the step are chosen once.   *)
(***************************************************************************)
InitRepeat ==
    \E v \in ScrollInputs, kind \in {"ScrollUp", "ScrollDown"}, n \in 1..MaxScroll :
        /\ IsView(v)
        /\ turns = 0
        /\ last = [kind |-> kind, n |-> n, topline |-> v.topline]

RepeatScroll ==
    /\ SetView(IF last.kind = "ScrollUp" THEN ScrollUp(View, last.n)
                                         ELSE ScrollDown(View, last.n))
    /\ last' = [last EXCEPT !.topline = topline]
    /\ UNCHANGED turns

NextRepeat == RepeatScroll

\* the call is repeated as long as it moves the view
SpecRepeat == InitRepeat /\ [][NextRepeat]_vars /\ WF_vars(RepeatScroll)

(***************************************************************************)
(* Editing and undoing: the editor is on a document with the cursor        *)
(* anywhere, with or without a selection, and an empty edit history.  Edit *)
(* events are handled, then they are undone; one Undo may be followed by a *)
(* Redo.  last keeps the document and the cursor at the start and after    *)
(* the latest edit event, and how far the run is: "edit", "undo1" after    *)
(* the first Undo, "undo" after more, "redone" after the Redo.             *)
(***************************************************************************)
\* the most transactions in the edit history of the editing runs
MaxEditHist == 2

\* the documents the editing starts on
EditDocs == {<<>>, <<"a", NL>>, <<TAB, "a">>}

\* the document and the cursor position of a view
Snapshot(v) == [text |-> v.buf.text, x |-> v.cursor.x, y |-> v.cursor.y]

\* the view after the cursor was put at offset p with the selection
\* <<a, b>>, as a click, a drag or SelectAll leaves it
Placed(v, p, a, b) ==
    Relocate(DisplayView([SetLoc(v, p) EXCEPT !.cursor.curSelection = <<a, b>>]))

\* the cursor and selection states the editing starts in: no selection, a
\* selection dragged from a to the cursor at b, and everything selected
\* with the cursor at the start
EditInputs ==
    UNION {
        LET v == NewView(NewBuffer(d, "f"), MaxScreenW, MaxScreenH)
            n == Len(d)
        IN  {Placed(v, p, p, p) : p \in 0..n}
              \cup {Placed(v, b, a, b) : a \in 0..n, b \in 0..n}
              \cup {Placed(v, 0, n, 0)}
        : d \in EditDocs}

InitEdit ==
    \E v \in EditInputs, tabsToSpaces \in BOOLEAN :
        /\ IsView([v EXCEPT !.settings.TabsToSpaces = tabsToSpaces])
        /\ turns = 0
        /\ last = [kind |-> "None", phase |-> "edit",
                   start |-> Snapshot(v), post |-> Snapshot(v)]

\* the model keeps the document and the edit history of an editing run
\* within its bounds
BoundedEdit(w) ==
    /\ BufLen(w.buf) <= MaxLen
    /\ Len(w.eh.undo) + Len(w.eh.redo) <= MaxEditHist

\* the edit events
EditKinds == {"Rune", "Space", "Enter", "Tab", "Backspace", "CtrlX", "CtrlV"}

EditStep ==
    /\ last.phase = "edit"
    /\ \E k \in EditKinds, clip \in ClipTexts :
        \E n \in {Turn([Event(k) EXCEPT !.clip = clip])} :
            /\ BoundedEdit(n)
            /\ SetView(n)
            /\ last' = [last EXCEPT !.kind = k, !.post = Snapshot(n)]
            /\ UNCHANGED turns

UndoStep ==
    /\ last.phase \in {"edit", "undo1", "undo"}
    /\ SetView(Turn(Event("CtrlZ")))
    /\ last' = [last EXCEPT !.kind = "CtrlZ",
                            !.phase = IF last.phase = "edit" THEN "undo1" ELSE "undo"]
    /\ UNCHANGED turns

RedoStep ==
    /\ last.phase = "undo1"
    /\ SetView(Turn(Event("CtrlY")))
    /\ last' = [last EXCEPT !.kind = "CtrlY", !.phase = "redone"]
    /\ UNCHANGED turns

NextEdit ==
    \/ EditStep
    \/ UndoStep
    \/ RedoStep

SpecEdit == InitEdit /\ [][NextEdit]_vars

(***************************************************************************)
(* Mouse gestures: button events, releases and cursor keys on a document.  *)
(* last follows the gesture as the ClickState of the design does: click is *)
(* the resolved position of the latest button-down that came after a       *)
(* release and mult its multiplicity (1, 2, 3; 0 where the state machine   *)
(* names no transition), prevClick and prevMult those of the button-down   *)
(* before it; press says that the step was such a button-down and fast     *)
(* that it came within the double-click threshold of lastClickTime.        *)
(***************************************************************************)
\* the most events of a mouse run
MaxGesture == 4

\* the document of the mouse runs: the lines "aa a" and "a"
MouseDoc == <<"a", "a", " ", "a", NL, "a">>

\* no click yet
NoClick == <<-1, -1>>

InitMouse ==
    /\ IsView(DisplayView(NewView(NewBuffer(MouseDoc, "f"), MaxScreenW, MaxScreenH)))
    /\ turns = 0
    /\ last = [kind |-> "None", press |-> FALSE, fast |-> FALSE,
               click |-> NoClick, mult |-> 0, prevClick |-> NoClick, prevMult |-> 0]

\* the multiplicity of a button-down at pos, by the state machine
NextMult(pos, fast) ==
    IF fast /\ pos = last.click
    THEN IF last.mult \in {1, 2} THEN last.mult + 1 ELSE 0
    ELSE 1

\* a Button1 event: a button-down when the button was released, a drag
\* when it is held
ButtonEvent ==
    /\ turns < MaxGesture
    /\ \E x \in MouseXs, y \in MouseYs, fast \in BOOLEAN :
        /\ fast => lastClickTime # "zero"
        /\ \E n \in {Turn([Event("Button1") EXCEPT !.x = x, !.y = y, !.fast = fast])} :
            /\ SetView(n)
            /\ last' = IF mouseReleased
                       THEN [kind |-> "Button1", press |-> TRUE, fast |-> fast,
                             click |-> <<n.cursor.x, n.cursor.y>>,
                             mult |-> NextMult(<<n.cursor.x, n.cursor.y>>, fast),
                             prevClick |-> last.click, prevMult |-> last.mult]
                       ELSE [last EXCEPT !.kind = "Button1", !.press = FALSE]
            /\ turns' = turns + 1

\* a mouse event with no button: the release, or a motion
ReleaseEvent ==
    /\ turns < MaxGesture
    /\ \E x \in MouseXs, y \in MouseYs :
        /\ SetView(Turn([Event("ButtonNone") EXCEPT !.x = x, !.y = y]))
        /\ last' = [last EXCEPT !.kind = "ButtonNone", !.press = FALSE]
        /\ turns' = turns + 1

\* a cursor key
CursorKeyEvent ==
    /\ turns < MaxGesture
    /\ \E k \in {"Up", "Down", "Left", "Right"} :
        /\ SetView(Turn(Event(k)))
        /\ last' = [last EXCEPT !.kind = k, !.press = FALSE]
        /\ turns' = turns + 1

NextMouse ==
    \/ ButtonEvent
    \/ ReleaseEvent
    \/ CursorKeyEvent

SpecMouse == InitMouse /\ [][NextMouse]_vars

(***************************************************************************)
(* Dragging and releasing: the button is down after a single, a double or  *)
(* a triple click on a cell; Button1 events follow while it is held, then  *)
(* events with no button.  last keeps the kind of the latest event, the    *)
(* flags and the cursor (with its selection) before it, and want: the      *)
(* selection that extending the one before the event to the event's point  *)
(* gives in the unit of the gesture (character, word or line).             *)
(***************************************************************************)
\* the most events after the button went down
MaxDrag == 3

\* one turn of the main loop on a view
TurnOn(v, e) == HandleEvent(DisplayView(v), e)

\* a Button1 event and an event with no button at a screen cell
ButtonAt(x, y, fast) == [Event("Button1") EXCEPT !.x = x, !.y = y, !.fast = fast]
NoButtonAt(x, y) == [Event("ButtonNone") EXCEPT !.x = x, !.y = y]

\* the view with the button down after k clicks on the cell (x, y), each
\* within the double-click threshold of the one before
RECURSIVE Clicks(_, _, _)
Clicks(k, x, y) ==
    IF k <= 1
    THEN TurnOn(DisplayView(NewView(NewBuffer(MouseDoc, "f"), MaxScreenW, MaxScreenH)),
                ButtonAt(x, y, FALSE))
    ELSE TurnOn(TurnOn(Clicks(k - 1, x, y), NoButtonAt(x, y)), ButtonAt(x, y, TRUE))

\* the cursor MoveToMouseClick gives for a mouse event on a displayed view
Pointed(v, e) ==
    MoveToMouseClick(v, e.x - (v.lineNumOffset - v.leftCol) - 1, e.y + v.topline - 1)

\* the selection of v extended to the point of a mouse event in the unit
\* of the gesture
Extended(v, e) ==
    LET To(m) == IF v.tripleClick THEN AddLineToSelection(m).cursor.curSelection
                 ELSE IF v.doubleClick THEN AddWordToSelection(m).cursor.curSelection
                 ELSE <<v.cursor.curSelection[1], Loc(m)>>
    IN  To(Pointed(v, e))

\* what last keeps of the view before an event
Before(kind, v, e) ==
    [kind |-> kind, released |-> v.mouseReleased, doubleClick |-> v.doubleClick,
     tripleClick |-> v.tripleClick, cursor |-> v.cursor, want |-> Extended(v, e)]

InitDrag ==
    \E k \in 1..3, x \in MouseXs, y \in MouseYs :
        /\ IsView(Clicks(k, x, y))
        /\ turns = 0
        /\ last = [kind |-> "None", released |-> TRUE, doubleClick |-> FALSE,
                   tripleClick |-> FALSE, cursor |-> Clicks(k, x, y).cursor,
                   want |-> <<0, 0>>]

\* a Button1 event while the button is held
DragEvent ==
    /\ turns < MaxDrag
    /\ ~mouseReleased
    /\ \E x \in MouseXs, y \in MouseYs, fast \in BOOLEAN :
        /\ SetView(TurnOn(View, ButtonAt(x, y, fast)))
        /\ last' = Before("Button1", DisplayView(View), ButtonAt(x, y, fast))
        /\ turns' = turns + 1

\* an event with no button: the release, then motions
NoButtonEvent ==
    /\ turns < MaxDrag
    /\ \E x \in MouseXs, y \in MouseYs :
        /\ SetView(TurnOn(View, NoButtonAt(x, y)))
        /\ last' = Before("ButtonNone", DisplayView(View), NoButtonAt(x, y))
        /\ turns' = turns + 1

NextDrag ==
    \/ DragEvent
    \/ NoButtonEvent

SpecDrag == InitDrag /\ [][NextDrag]_vars

(***************************************************************************)
(* One key event on its own: the editor is on an unnamed empty buffer or   *)
(* on a file, the cursor anywhere, with or without a selection, and has    *)
(* handled no edit event or one; then one key event is handled.  last      *)
(* keeps that event, with what the environment answered, and the view      *)
(* before it.                                                              *)
(***************************************************************************)
\* the buffers the editor is on: a new buffer has no path
StepDocs ==
    {NewBuffer(<<>>, ""), NewBuffer(<<"a", NL>>, "f"), NewBuffer(<<TAB, "a">>, "f"),
     NewBuffer(<<"a", NL, "a", NL, "a">>, "f")}

\* the views before the key event, as a click, a drag or SelectAll and
\* then no or one edit event leave them
StepInputs ==
    UNION {
        LET v == NewView(b, MaxScreenW, MaxScreenH)
            n == BufLen(b)
            placed == {Placed(v, q, q, q) : q \in 0..n}
                        \cup {Placed(v, c, a, c) : a \in 0..n, c \in 0..n}
                        \cup {Placed(v, 0, n, 0)}
        IN  placed \cup {TurnOn(w, Event(k)) : w \in placed, k \in EditKinds}
        : b \in StepDocs}

InitStep ==
    \E v \in StepInputs, unsupported \in BOOLEAN :
        /\ IsView([v EXCEPT !.clipboard.Unsupported = unsupported])
        /\ turns = 0
        /\ last = [kind |-> "None", event |-> Event("None"), view |-> v]

\* the event e is handled
Stepped(e) ==
    /\ SetView(TurnOn(View, e))
    /\ last' = [kind |-> e.kind, event |-> e, view |-> View]
    /\ UNCHANGED turns

\* each action handles one event on a view that has handled none
StepKey == \E k \in PlainKeys : last.kind = "None" /\ Stepped(Event(k))

StepRune == \E k \in {"Rune"} : last.kind = "None" /\ Stepped(Event(k))

StepPaste ==
    \E k \in {"CtrlV"}, clip \in ClipTexts :
        last.kind = "None" /\ Stepped([Event(k) EXCEPT !.clip = clip])

StepSave ==
    \E k \in {"CtrlS"}, canceled \in BOOLEAN, err \in BOOLEAN :
        /\ last.kind = "None"
        /\ Stepped([Event(k) EXCEPT !.canceled = canceled, !.err = err])

\* the file read is unreadable or holds one of the documents
StepOpen ==
    \E k \in {"CtrlO"}, quit \in {"Y", "yes", "no"}, canceled \in BOOLEAN,
       fileCanceled \in BOOLEAN, ferr \in BOOLEAN, d \in FileDocs :
        /\ last.kind = "None"
        /\ Stepped([Event(k) EXCEPT !.quit = quit, !.canceled = canceled,
                                    !.fileCanceled = fileCanceled,
                                    !.file = [err |-> ferr,
                                              text |-> IF ferr THEN <<>> ELSE d]])

StepWheel ==
    \E k \in {"WheelUp", "WheelDown"} : last.kind = "None" /\ Stepped(Event(k))

NextStep ==
    \/ StepKey
    \/ StepRune
    \/ StepPaste
    \/ StepSave
    \/ StepOpen
    \/ StepWheel

SpecStep == InitStep /\ [][NextStep]_vars

(***************************************************************************)
(* MoveToMouseClick on its own: the view is drawn from bounded sets and    *)
(* the cursor is moved to any cell, on the screen or off it.  last keeps   *)
(* the cell and the top line the click started from.                       *)
(***************************************************************************)
\* the most lines of a document that is clicked on
MaxClickLines == 3
\* the heights 0..MaxClickHeight of the viewport that is clicked on
MaxClickHeight == 2
\* the cells -MaxClick..MaxClick in each direction
MaxClick == 4

\* a view to click on: a document with tabs of up to MaxClickLines lines,
\* any height, any line of it the top line
ClickInputs ==
    {[NewView(NewBuffer(LinesDoc(c[1], <<"a", TAB, "a">>), "f"), MaxScreenW, c[2] + 2)
          EXCEPT !.topline = c[3]] :
        c \in {d \in (1..MaxClickLines) \X (0..MaxClickHeight) \X (0..MaxClickLines) :
                  d[3] < d[1]}}

InitClick ==
    \E v \in ClickInputs :
        /\ IsView(v)
        /\ turns = 0
        /\ last = NoStep

ClickStep ==
    \E x \in (-MaxClick)..MaxClick, y \in (-MaxClick)..MaxClick :
        /\ SetView(MoveToMouseClick(View, x, y))
        /\ last' = [kind |-> "Click", x |-> x, y |-> y, topline |-> topline]
        /\ UNCHANGED turns

NextClick == ClickStep

SpecClick == InitClick /\ [][NextClick]_vars

(***************************************************************************)
(* DisplayView drawing the text: the view is drawn from bounded sets, with *)
(* the cursor and a selection placed in it, and is displayed once.  last   *)
(* keeps the characters drawn, each with the running offset charNum and    *)
(* the style chosen for it.                                                *)
(***************************************************************************)
\* the most lines of a document that is drawn
MaxDrawLines == 2
\* the lengths 0..MaxDrawCols of its lines
MaxDrawCols == 6

\* DisplayView, the loop over colN of screen line lineN, entered with the
\* running offset charNum: the characters drawn, each with the outcome of
\* the test of charNum against the selection bounds, and charNum after the
\* loop
RECURSIVE DrawColumns(_, _, _, _)
DrawColumns(v, lineN, colN, charNum) ==
    IF colN >= v.leftCol + v.width \/ colN >= Count(LineAt(v.buf, lineN + v.topline))
    THEN [cells |-> {}, charNum |-> charNum]
    ELSE LET InSelectionStyle ==
                 /\ HasSelection(v)
                 /\ \/ /\ charNum >= v.cursor.curSelection[1]
                       /\ charNum < v.cursor.curSelection[2]
                    \/ /\ charNum < v.cursor.curSelection[1]
                       /\ charNum >= v.cursor.curSelection[2]
             Drawn(r) ==
                 [cells |-> r.cells \cup {[lineN |-> lineN, colN |-> colN,
                                           charNum |-> charNum,
                                           selected |-> InSelectionStyle]},
                  charNum |-> r.charNum]
         IN  Drawn(DrawColumns(v, lineN, colN + 1, charNum + 1))

\* DisplayView, the loop over lineN: the characters drawn from screen line
\* lineN on
RECURSIVE DrawLines(_, _, _)
DrawLines(v, lineN, charNum) ==
    IF lineN >= v.height \/ lineN + v.topline >= NumLines(v.buf)
    THEN {}
    ELSE LET Below(r) == r.cells \cup DrawLines(v, lineN + 1, r.charNum + 1)
         IN  Below(DrawColumns(v, lineN, v.leftCol, charNum))

\* a view to draw: lines of equal length, the cursor at any offset, no
\* selection or one dragged from any offset to the cursor
DrawInputs ==
    UNION {
        LET v == NewView(NewBuffer(LinesDoc(c[1], [i \in 1..c[2] |-> "a"]), "f"),
                         MaxScreenW, MaxScreenH)
            n == c[1] * (c[2] + 1) - 1
        IN  {Placed(v, q, a, q) : a \in 0..n, q \in 0..n}
        : c \in (1..MaxDrawLines) \X (0..MaxDrawCols)}

InitDraw ==
    \E v \in DrawInputs :
        /\ IsView(v)
        /\ turns = 0
        /\ last = [kind |-> "None", cells |-> {}]

\* View.DisplayView()
DrawStep ==
    /\ last.kind = "None"
    /\ SetView(DisplayView(View))
    /\ last' = [kind |-> "Draw",
                cells |-> DrawLines(View, 0, ToCharPos(0, topline, buf))]
    /\ UNCHANGED turns

SpecDraw == InitDraw /\ [][DrawStep]_vars

(***************************************************************************)
(* Properties                                                              *)
(***************************************************************************)
\* the cursor is on a line of the buffer, within that line
CursorValid ==
    /\ cursor.y >= 0 /\ cursor.y < NumLines(buf)
    /\ cursor.x >= 0 /\ cursor.x <= Count(LineAt(buf, cursor.y))

\* C3: in every reachable state the top line lies in
\* [0, max(0, lineCount - height)].
C3_TopLineInRange ==
    topline >= 0 /\ topline <= Max(0, NumLines(buf) - height)

\* C4: in every reachable state the cursor is at an offset of the buffer
\* and both selection bounds lie in [0, documentLength].
C4_OffsetsInDocument ==
    /\ CursorValid
    /\ cursor.curSelection[1] \in 0..BufLen(buf)
    /\ cursor.curSelection[2] \in 0..BufLen(buf)

\* C5: ScrollDown(n), n >= 0, never decreases the top line and never sets
\* it to a value above lineCount - height.
C5_ScrollDownBounded ==
    last.kind = "ScrollDown" =>
        \/ topline = last.topline
        \/ topline > last.topline /\ topline <= NumLines(buf) - height

\* a ScrollDown that would overshoot has moved the view by one line
C5_Witness ==
    /\ last.kind = "ScrollDown" /\ last.n > 1
    /\ topline = last.topline + 1
    /\ topline = NumLines(buf) - height

\* the step of a page operation
PageStep == IF last.kind = "PageDown" THEN height ELSE height \div 2

\* C7: for height >= 1, PageDown and HalfPageDown leave the top line alone
\* when the document is shorter than the viewport, and otherwise set it to
\* min(topline + step, lineCount - height).
C7_PageDownSnaps ==
    (last.kind \in {"PageDown", "HalfPageDown"} /\ height >= 1) =>
        IF NumLines(buf) < height
        THEN topline = last.topline
        ELSE topline = Min(last.topline + PageStep, NumLines(buf) - height)

\* a page down that snapped to the end of the document by less than a step
C7_Witness ==
    /\ last.kind = "PageDown"
    /\ topline = NumLines(buf) - height
    /\ topline > last.topline /\ topline < last.topline + height

\* C8: after Relocate the cursor's line lies in [topline, topline + height)
\* and its visual column plus the gutter in [leftCol, leftCol + width).
C8_RelocateShowsCursor ==
    last.kind = "Relocate" =>
        /\ cursor.y >= topline /\ cursor.y < topline + height
        /\ GetVisualX(View) + lineNumOffset >= leftCol
        /\ GetVisualX(View) + lineNumOffset < leftCol + width

\* Relocate has moved the view down and to the right to show the cursor
C8_Witness ==
    /\ last.kind = "Relocate"
    /\ topline > last.topline
    /\ cursor.y = topline + height - 1
    /\ leftCol > 0
    /\ GetVisualX(View) + lineNumOffset = leftCol + width - 1

\* the last line the view may start at
LastTop == NumLines(buf) - height

\* a repeated scroll call short of its boundary moves the view by the full
\* step when that stays within the boundary and by one line otherwise; at
\* the boundary it leaves the view alone
ScrollStepExact ==
    /\ (last.kind = "ScrollDown" /\ topline < LastTop) =>
           topline' = IF topline + last.n <= LastTop THEN topline + last.n
                                                     ELSE topline + 1
    /\ (last.kind = "ScrollDown" /\ topline = LastTop) => topline' = topline
    /\ (last.kind = "ScrollUp" /\ topline > 0) =>
           topline' = IF topline - last.n >= 0 THEN topline - last.n
                                               ELSE topline - 1
    /\ (last.kind = "ScrollUp" /\ topline = 0) => topline' = topline

\* C6: for n >= 1 a scroll call short of its boundary always moves the top
\* line, by n when the full step stays within the boundary and by exactly 1
\* otherwise; repeated, it brings the top line exactly to the boundary
\* (lineCount - height going down, 0 going up) and never past it.
C6_ScrollReachesBoundary ==
    /\ [][ScrollStepExact]_vars
    /\ [](last.kind = "ScrollDown" /\ topline < LastTop => <>[](topline = LastTop))
    /\ [](last.kind = "ScrollUp" /\ topline > 0 => <>[](topline = 0))

\* a scroll down by more than one line has reached the boundary by a
\* single line
C6_Witness ==
    /\ last.kind = "ScrollDown" /\ last.n > 1
    /\ last.topline = topline - 1
    /\ topline = LastTop

\* C1: once a sequence of edit events has been undone in full, the
\* document and the cursor position are those before the first edit.
C1_UndoAllRestores ==
    (last.phase \in {"undo1", "undo"} /\ eh.undo = <<>>) =>
        Snapshot(View) = last.start

\* several transactions that changed the document and moved the cursor
\* have all been undone
C1_Witness ==
    /\ last.phase = "undo" /\ eh.undo = <<>> /\ Len(eh.redo) > 1
    /\ last.post.text # last.start.text
    /\ last.post.x # last.start.x

C9_SameClickSelects ==
    (last.kind = "Button1" /\ last.press /\ last.fast /\ last.click = last.prevClick) =>
        /\ last.prevMult = 1 => cursor.curSelection = WordAt(View)
        /\ last.prevMult = 2 => cursor.curSelection = LineOf(View)

\* C10: a button-down after a release, outside the double-click threshold
\* or resolving to a position other than that of the button-down before it,
\* is a single click: doubleClick and tripleClick are cleared and the
\* selection is collapsed at the click.
C10_OtherClickRestarts ==
    (last.kind = "Button1" /\ last.press
        /\ (~last.fast \/ last.click # last.prevClick)) =>
        /\ ~doubleClick /\ ~tripleClick
        /\ cursor.curSelection = <<Loc(View), Loc(View)>>

\* C11: while the button is held, a Button1 event extends the selection
\* in the unit of the gesture (in Single only the active edge moves to the
\* drag point, in Double by AddWordToSelection, in Triple by
\* AddLineToSelection) and leaves doubleClick and tripleClick as they were.
C11_DragExtendsByUnit ==
    (last.kind = "Button1" /\ ~last.released) =>
        /\ cursor.curSelection = last.want
        /\ doubleClick = last.doubleClick
        /\ tripleClick = last.tripleClick
        /\ ~mouseReleased

\* a drag after a triple click has extended the selection to another line,
\* one after a double click to another word
C11_Witness ==
    /\ last.kind = "Button1" /\ ~last.released
    /\ last.doubleClick \/ last.tripleClick
    /\ cursor.curSelection # last.cursor.curSelection
    /\ cursor.curSelection # cursor.origSelection

\* C12: the first event with no button after a button-down, in Single,
\* Double or Triple, sets mouseReleased and puts the far edge of the
\* selection at the release point, the anchor edge staying; an event with
\* no button while released changes neither cursor nor selection.
C12_ReleaseCommits ==
    last.kind = "ButtonNone" =>
        IF last.released
        THEN cursor = last.cursor /\ mouseReleased
        ELSE mouseReleased /\ cursor.curSelection = last.want

\* C13: handling one input event records at most one transaction in the
\* edit log, also a typed character, Enter, Tab or Paste with a selection.
C13_OneTransactionPerEvent ==
    last.kind \in KeyKinds => Len(eh.undo) <= Len(last.view.eh.undo) + 1

\* the events that edit the buffer
StructuralKinds ==
    {"Rune", "Space", "Tab", "Enter", "Backspace", "CtrlX", "CtrlV", "CtrlZ", "CtrlY"}

\* the event changed the text or recorded, undid or redid a transaction
Edited ==
    \/ buf.text # last.view.buf.text
    \/ eh.undo # last.view.eh.undo
    \/ eh.redo # last.view.eh.redo

\* C14: after an event that edits the buffer, updateLines covers the whole
\* viewport [topline, topline + height] as it is when the event ends.
C14_DirtyRangeCoversViewport ==
    (last.kind \in StructuralKinds /\ Edited) =>
        updateLines[1] <= topline /\ updateLines[2] >= topline + height + 1

\* the buffer, the cursor with its selection and the undo and redo stacks
\* are those before the event
Untouched ==
    /\ buf = last.view.buf
    /\ cursor = last.view.cursor
    /\ eh.undo = last.view.eh.undo
    /\ eh.redo = last.view.eh.redo

\* C15: with the clipboard unsupported, Copy, Cut and Paste leave the
\* buffer, the cursor, the selection and the undo and redo stacks as they
\* were, with or without a selection.
C15_UnsupportedClipboardAborts ==
    (last.kind \in {"CtrlC", "CtrlX", "CtrlV"} /\ clipboard.Unsupported) => Untouched

\* a Cut of a selected text on an unsupported clipboard
C15_Witness ==
    /\ last.kind = "CtrlX" /\ clipboard.Unsupported
    /\ HasSelection(View) /\ GetSelection(View) # <<>>

\* a prompt of the event was answered by a cancel: the filename prompt of
\* Save, the unsaved-changes prompt or the file prompt of OpenFile
PromptCanceled ==
    \/ last.kind = "CtrlS" /\ last.view.buf.path = "" /\ last.event.canceled
    \/ last.kind = "CtrlO" /\ last.view.buf.dirty /\ last.event.canceled
    \/ /\ last.kind = "CtrlO"
       /\ CanClose(last.view, last.event.quit, last.event.canceled)
       /\ last.event.fileCanceled

\* C16: canceling a prompt of Save or OpenFile leaves the buffer (content,
\* path, name, dirty flag), the cursor and selection and the edit log as
\* they were before the operation.
C16_CancelChangesNothing == PromptCanceled => Untouched

\* the filename prompt of Save was canceled on an unnamed buffer with
\* unsaved changes
C16_Witness ==
    /\ last.kind = "CtrlS" /\ last.event.canceled
    /\ buf.path = "" /\ buf.dirty /\ eh.undo # <<>>

\* Save has tried to write the file, OpenFile to read one
SaveWrites == last.kind = "CtrlS" /\ ~(last.view.buf.path = "" /\ last.event.canceled)
OpenReads ==
    /\ last.kind = "CtrlO"
    /\ OpenFileReads(last.view, last.event.quit, last.event.canceled,
                     last.event.fileCanceled)

\* C17: when Save fails with a write error or OpenFile with a read error,
\* the buffer (content, path, name) and the cursor are as before.
C17_FileErrorChangesNothing ==
    ((SaveWrites /\ last.event.err) \/ (OpenReads /\ last.event.file.err)) =>
        /\ buf.text = last.view.buf.text
        /\ buf.path = last.view.buf.path
        /\ buf.name = last.view.buf.name
        /\ cursor = last.view.cursor

\* C18: when OpenFile has replaced the buffer, the cursor is at the start
\* of the new buffer with no selection, topline and leftCol are 0 and the
\* undo and redo stacks are empty.
C18_OpenFileResetsView ==
    (OpenReads /\ ~last.event.file.err) =>
        /\ cursor.x = 0 /\ cursor.y = 0 /\ ~HasSelection(View)
        /\ topline = 0 /\ leftCol = 0
        /\ eh.undo = <<>> /\ eh.redo = <<>>

\* the unsaved-changes prompt of OpenFile was answered by anything but
\* "yes" or "y", in any case of the letters
Refused ==
    /\ last.kind = "CtrlO" /\ last.view.buf.dirty
    /\ \/ last.event.canceled
       \/ ToLower(last.event.quit) \notin {"yes", "y"}

\* C20: OpenFile replaces the buffer only when it is not dirty or the
\* answer to the unsaved-changes prompt is "yes" or "y" in any case of the
\* letters; after a cancel or another answer a dirty buffer stays and no
\* file is read.
C20_DirtyBufferKeptUnlessYes ==
    Refused => buf = last.view.buf /\ ~OpenReads

\* a dirty buffer was kept on the answer "no" with a readable file at hand
C20_Witness ==
    /\ Refused /\ ~last.event.canceled /\ last.event.quit = "no"
    /\ ~last.event.fileCanceled /\ ~last.event.file.err
    /\ buf.dirty

WithoutCharBefore(t, p) == SubSeq(t, 1, p - 1) \o SubSeq(t, p + 1, Len(t))

\* what Backspace leaves of a view with no selection and the cursor at
\* offset p
BackspaceDone(p) ==
    IF p > 0
    THEN /\ buf.text = WithoutCharBefore(last.view.buf.text, p)
         /\ Loc(View) = p - 1
    ELSE /\ buf = last.view.buf
         /\ eh.undo = last.view.eh.undo
         /\ eh.redo = last.view.eh.redo

\* C21: Backspace with no selection and the cursor at offset p > 0 removes
\* the one character at offset p - 1, joining two lines when it is a
\* newline, and leaves the cursor at offset p - 1; at offset 0 it changes
\* neither the buffer nor the edit log.
C21_BackspaceRemovesOne ==
    (last.kind = "Backspace" /\ ~HasSelection(last.view)) =>
        BackspaceDone(Loc(last.view))

\* a Backspace at the start of the second line, which joined it to the first
C21_Witness ==
    /\ last.kind = "Backspace" /\ ~HasSelection(last.view)
    /\ last.view.cursor.y = 1 /\ last.view.cursor.x = 0
    /\ NumLines(buf) = NumLines(last.view.buf) - 1
    /\ cursor.y = 0 /\ cursor.x > 0

\* C22: for every character DisplayView draws, charNum is the character's
\* offset in the document, and the character is drawn in selection style
\* iff that offset lies in [min(anchor, active), max(anchor, active)).
C22_CharNumIsOffset ==
    last.kind = "Draw" =>
        \A c \in last.cells :
            /\ c.charNum = ToCharPos(c.colN, c.lineN + topline, buf)
            /\ c.selected <=>
                  /\ ToCharPos(c.colN, c.lineN + topline, buf)
                        >= Min(cursor.curSelection[1], cursor.curSelection[2])
                  /\ ToCharPos(c.colN, c.lineN + topline, buf)
                        < Max(cursor.curSelection[1], cursor.curSelection[2])

\* the events that scroll
ScrollKinds == {"Home", "End", "PgUp", "PgDn", "CtrlU", "CtrlD", "WheelUp", "WheelDown"}

\* the top line the scroll operation of an event of the kind gives the view
ScrolledTop(kind, v) ==
    CASE kind = "Home" -> 0
      [] kind = "End" -> IF v.height > NumLines(v.buf) THEN 0
                         ELSE NumLines(v.buf) - v.height
      [] kind = "PgUp" -> PageUp(v).topline
      [] kind = "PgDn" -> PageDown(v).topline
      [] kind = "CtrlU" -> HalfPageUp(v).topline
      [] kind = "CtrlD" -> HalfPageDown(v).topline
      [] kind = "WheelUp" -> ScrollUp(v, 2).topline
      [] kind = "WheelDown" -> ScrollDown(v, 2).topline

\* C23: Home, End, PageUp, PageDown, Ctrl-U, Ctrl-D and the mouse wheel
\* leave the cursor, the selection, leftCol, the buffer and the undo and
\* redo stacks as they were, and the top line is the one the scroll
\* operation gives, not relocated to the cursor.
C23_ScrollChangesTopLineOnly ==
    last.kind \in ScrollKinds =>
        /\ cursor = last.view.cursor
        /\ leftCol = last.view.leftCol
        /\ buf = last.view.buf
        /\ eh.undo = last.view.eh.undo
        /\ eh.redo = last.view.eh.redo
        /\ topline = ScrolledTop(last.kind, last.view)

\* End has scrolled past the cursor, which is left above the first visible
\* line
C23_Witness ==
    /\ last.kind = "End" /\ topline > last.view.topline
    /\ cursor.y < topline /\ HasSelection(View)
====
